---- MODULE Spec2Model ----
(***************************************************************************)
(* State-machine model of the websocket monitor front ends of              *)
(* rust-vue-demo.  The repository holds three variants of the monitor      *)
(* component:                                                              *)
(*   MessageMonitor  src/webui/src/components/MessageMonitor.vue           *)
(*   part_000        src/unnamed/part_000  (counter/body messages)         *)
(*   part_001        src/unnamed/part_001  (data/notice messages, echo)    *)
(* One of them is mounted per session (variable app).  Every event handler *)
(* of the mounted component is one action; JavaScript handlers run to      *)
(* completion, so a handler that throws keeps the assignments it made      *)
(* before the throw and skips the rest.                                    *)
(***************************************************************************)
EXTENDS Integers, Sequences, FiniteSets, TLC

VARIABLES
    app,         \* which component is mounted
    vm,          \* the component's reactive state (its refs / data() fields)
    connection,  \* the WebSocket object: readyState, frames handed to the wire
    toasts,      \* ElMessage toasts raised so far (MessageMonitor only)
    log,         \* history: every frame ever pushed to the frame history
    beats,       \* history: messages received with a non-empty service_url
    pc           \* the statement the running 'message' handler is at

vars == <<app, vm, connection, toasts, log, beats, pc>>

-----------------------------------------------------------------------------
(* Bounds of the exploration *)

\* pushes explored beyond the largest shift threshold of the mounted component
MaxOver == 2
\* heartbeats explored (23 are needed for the activity level to wrap)
MaxBeats == 24
\* notice toasts explored (the error and close toasts come on top)
MaxToasts == 1
\* frames handed to an open socket
MaxSent == 1
\* well-formed messages that push nothing (part_000, part_001 count them)
MaxSkips == 1
\* messages handled statement by statement
MaxHandled == 2

-----------------------------------------------------------------------------
(* Program constants *)

\* MessageMonitor.vue: frames.value.length > 100
FramesLimit == 100
\* part_000: vm.messages.length > 20
MessagesLimit0 == 20
\* part_001 onmessage: vm.messages.length > 15
MessagesLimitIn == 15
\* part_001 sendMessage: this.messages.length > 20
MessagesLimitOut == 20
\* activity.value = (activity.value + 4) % 100
ActivityStep == 4
ActivityModulus == 100
\* const activity = ref(10)
ActivityInit == 10
\* zeroPadHex(count.value, 8)
IdPlaces == 8

Apps == {"MessageMonitor", "part_000", "part_001"}

\* JavaScript's undefined (what reading a missing field yields)
UNDEFINED == "undefined"

-----------------------------------------------------------------------------
(* Pure helpers *)

HexDigit == <<"0", "1", "2", "3", "4", "5", "6", "7",
              "8", "9", "a", "b", "c", "d", "e", "f">>

RECURSIVE toString16(_)
\* num.toString(16) for a non-negative integer
toString16(num) ==
    IF num < 16 THEN HexDigit[num + 1]
    ELSE toString16(num \div 16) \o HexDigit[(num % 16) + 1]

RECURSIVE padStart(_, _, _)
\* s.padStart(places, fill) with a one-character fill
padStart(s, places, fill) ==
    IF Len(s) >= places THEN s ELSE padStart(fill \o s, places, fill)

\* const zeroPadHex = (num, places) => String(num.toString(16)).padStart(places, '0')
zeroPadHex(num, places) == padStart(toString16(num), places, "0")

\* Array.prototype.shift: drop the element at index 0
shift(arr) == Tail(arr)

\* Array.prototype.push: insert at the tail
push(arr, x) == Append(arr, x)

\* JavaScript truthiness of a string-or-undefined value
Truthy(v) == v # UNDEFINED /\ v # ""

-----------------------------------------------------------------------------
(* Inbound messages *)

\* the backend's frame stream; the n-th frame pushed carries Feed[n mod Len]
Feed == <<"A", "B", "C", "D">>
NextPayload == Feed[(Len(log) % Len(Feed)) + 1]

ServiceUrl == "ws://127.0.0.1:3000/ws"
NoticeText == "bus off"

\* a decoded message: ok = JSON.parse succeeded, has = the fields present
Msg(ok, has, url, data, notice, counter, body) ==
    [ok |-> ok, has |-> has, service_url |-> url, data |-> data,
     notice |-> notice, counter |-> counter, body |-> body]

\* a text JSON.parse rejects; also the placeholder of non-message events
Malformed == Msg(FALSE, {}, UNDEFINED, UNDEFINED, UNDEFINED, 0, UNDEFINED)

\* messages of the service_url/data/notice protocol (MessageMonitor, part_001):
\* each field is absent, the empty string, or a value
DataMessages ==
    { Msg(TRUE, { f \in {"service_url", "data", "notice"} :
                    <<url, data, notice>>[IF f = "service_url" THEN 1
                                          ELSE IF f = "data" THEN 2 ELSE 3] # UNDEFINED },
          url, data, notice, 0, UNDEFINED) :
        url \in {UNDEFINED, "", ServiceUrl},
        data \in {UNDEFINED, "", NextPayload},
        notice \in {UNDEFINED, NoticeText} }

\* messages of the service_url/counter/body protocol (part_000)
BodyMessages ==
    { Msg(TRUE, {"service_url"}, ServiceUrl, UNDEFINED, UNDEFINED, 0, UNDEFINED),
      Msg(TRUE, {}, UNDEFINED, UNDEFINED, UNDEFINED, 0, UNDEFINED),
      Msg(TRUE, {"counter", "body"}, UNDEFINED, UNDEFINED, UNDEFINED,
          Len(log), NextPayload),
      Msg(TRUE, {"service_url", "counter", "body"}, ServiceUrl, UNDEFINED, UNDEFINED,
          Len(log), NextPayload) }

\* reading a field of the parsed object
Field(m, f) == IF f \in m.has THEN m[f] ELSE UNDEFINED

-----------------------------------------------------------------------------
(* History bookkeeping *)

\* one pushed frame: the sequence number rendered into it, its payload,
\* whether the user originated it, and the value pushed
Pushed(seq, payload, local, entry) ==
    [seq |-> seq, payload |-> payload, local |-> local, entry |-> entry]

\* the frame history of the mounted component
History == IF app = "MessageMonitor" THEN vm.frames ELSE vm.messages

\* the largest shift threshold of the mounted component
Capacity ==
    CASE app = "MessageMonitor" -> FramesLimit
      [] app = "part_000" -> MessagesLimit0
      [] OTHER -> MessagesLimitOut

CanPush == Len(log) < Capacity + MaxOver

Inbound == SelectSeq(log, LAMBDA f : ~f.local)

-----------------------------------------------------------------------------
(* The WebSocket object *)

\* new WebSocket(...): connecting, nothing sent
NewWebSocket == [readyState |-> "CONNECTING", sent |-> <<>>, closePending |-> FALSE]

\* WebSocket.send throws InvalidStateError while CONNECTING
SendThrows(ws) == ws.readyState = "CONNECTING"

\* WebSocket.send: queued on an OPEN socket, discarded once CLOSING/CLOSED
WsSend(ws, s) ==
    IF ws.readyState = "OPEN" THEN [ws EXCEPT !.sent = Append(@, s)] ELSE ws

-----------------------------------------------------------------------------
(* Construction *)

MonitorRefs ==
    [count |-> 0, activity |-> ActivityInit, outframe |-> "123#DEADBEEF",
     frames |-> <<>>, service_url |-> ""]

Part000Data ==
    [messages |-> <<>>, counter |-> 0, service_url |-> "unknown"]

Part001Data ==
    [messages |-> <<>>, counter |-> 0, service_url |-> "unknown",
     frame |-> "123#DEADBEEF", notice |-> UNDEFINED]

\* no handler is running; n messages have been handled
Idle(n) == [at |-> "idle", msg |-> UNDEFINED, before |-> UNDEFINED, handled |-> n]

Init ==
    /\ app \in Apps
    /\ vm = CASE app = "MessageMonitor" -> MonitorRefs
              [] app = "part_000" -> Part000Data
              [] OTHER -> Part001Data
    /\ connection = NewWebSocket
    /\ toasts = <<>>
    /\ log = <<>>
    /\ beats = 0
    /\ pc = Idle(0)

-----------------------------------------------------------------------------
(* MessageMonitor.vue *)

\* the service_url branch without the wrap-around: activity + 4
ServiceUrlBranchNoWrap(v, parsed) ==
    IF Truthy(Field(parsed, "service_url"))
    THEN [v EXCEPT !.service_url = Field(parsed, "service_url"),
                   !.activity = @ + ActivityStep]
    ELSE v

\* line 26-29: if (parsed.service_url) { service_url = ...; activity = (activity + 4) % 100 }
ServiceUrlBranch(v, parsed) ==
    IF Truthy(Field(parsed, "service_url"))
    THEN [v EXCEPT !.service_url = Field(parsed, "service_url"),
                   !.activity = (@ + ActivityStep) % ActivityModulus]
    ELSE v

\* an append that inserts the new frame at the head (unshift instead of push)
AppendFrameAtHead(frames, count, data) ==
    <<[id |-> zeroPadHex(count, IdPlaces), frame |-> data]>>
        \o (IF Len(frames) > FramesLimit THEN shift(frames) ELSE frames)

\* line 32-35: if (frames.length > 100) frames.shift(); frames.push({id, frame})
AppendFrame(frames, count, data) ==
    push(IF Len(frames) > FramesLimit THEN shift(frames) ELSE frames,
         [id |-> zeroPadHex(count, IdPlaces), frame |-> data])

\* line 31-37: if (parsed.data) { shift/push; count++ }
DataBranch(v, parsed) ==
    IF Truthy(Field(parsed, "data"))
    THEN [v EXCEPT !.frames = AppendFrame(@, v.count, Field(parsed, "data")),
                   !.count = @ + 1]
    ELSE v

\* line 39-41 and 68-70: if (parsed.notice) toast(parsed.notice) -> ElMessage.info
NoticeBranch(ts, parsed) ==
    IF Truthy(Field(parsed, "notice"))
    THEN Append(ts, [type |-> "info", message |-> Field(parsed, "notice")])
    ELSE ts

\* a toast_error that raises its message at the info level
toast_errorAsInfo(ts, msg) == Append(ts, [type |-> "info", message |-> msg])

\* line 64-66: toast_error(msg) -> ElMessage.error(msg)
toast_error(ts, msg) == Append(ts, [type |-> "error", message |-> msg])

\* line 20-42: the 'message' listener.  JSON.parse (line 23) throws on a
\* malformed text before any assignment.
MonitorOnMessage(m) ==
    /\ app = "MessageMonitor"
    /\ connection.readyState = "OPEN"
    /\ m.ok /\ Truthy(Field(m, "data")) => CanPush
    /\ m.ok /\ Truthy(Field(m, "service_url")) => beats < MaxBeats
    /\ m.ok /\ Truthy(Field(m, "notice")) => Len(toasts) < MaxToasts
    /\ IF ~m.ok
       THEN /\ UNCHANGED <<vm, toasts, log, beats>>
       ELSE /\ vm' = DataBranch(ServiceUrlBranch(vm, m), m)
            /\ toasts' = NoticeBranch(toasts, m)
            /\ log' = IF Truthy(Field(m, "data"))
                      THEN Append(log, Pushed(vm.count, Field(m, "data"), FALSE,
                                              vm'.frames[Len(vm'.frames)]))
                      ELSE log
            /\ beats' = IF Truthy(Field(m, "service_url")) THEN beats + 1 ELSE beats
    /\ UNCHANGED <<app, pc, connection>>

\* line 44-47: the 'error' listener.  The browser sets readyState to CLOSED
\* before it fires error, and fires close right after it.
MonitorOnError ==
    /\ app = "MessageMonitor"
    /\ connection.readyState # "CLOSED"
    /\ connection' = [connection EXCEPT !.readyState = "CLOSED", !.closePending = TRUE]
    /\ toasts' = toast_error(toasts, "lost connection")
    /\ UNCHANGED <<app, pc, vm, log, beats>>

\* a close listener that reconnects: connection.value = createWs()
MonitorOnCloseReconnect ==
    /\ app = "MessageMonitor"
    /\ connection.readyState # "CLOSED" \/ connection.closePending
    /\ connection' = NewWebSocket
    /\ toasts' = toast_error(toasts, "lost connection")
    /\ UNCHANGED <<app, pc, vm, log, beats>>

\* line 49-52: the 'close' listener
MonitorOnClose ==
    /\ app = "MessageMonitor"
    /\ connection.readyState # "CLOSED" \/ connection.closePending
    /\ connection' = [connection EXCEPT !.readyState = "CLOSED", !.closePending = FALSE]
    /\ toasts' = toast_error(toasts, "lost connection")
    /\ UNCHANGED <<app, pc, vm, log, beats>>

\* line 59-62: sendFrame.  The text field bound to outframe (line 82) is left
\* at the value it is constructed with.
sendFrame ==
    /\ app = "MessageMonitor"
    /\ connection.readyState = "OPEN" => Len(connection.sent) < MaxSent
    /\ connection' = IF SendThrows(connection) THEN connection
                     ELSE WsSend(connection, vm.outframe)
    /\ UNCHANGED <<app, pc, vm, toasts, log, beats>>

\* no 'open' listener is registered: the socket just becomes OPEN
MonitorOnOpen ==
    /\ app = "MessageMonitor"
    /\ connection.readyState = "CONNECTING"
    /\ connection' = [connection EXCEPT !.readyState = "OPEN"]
    /\ UNCHANGED <<app, pc, vm, toasts, log, beats>>

-----------------------------------------------------------------------------
(* part_000 *)

\* line 53-55: if (vm.messages.length > 20) vm.messages.shift()   (before JSON.parse)
ShiftBeforeParse(v) ==
    IF Len(v.messages) > MessagesLimit0
    THEN [v EXCEPT !.messages = shift(@)]
    ELSE v

\* line 57-58: vm.counter += 1; vm.service_url = parsedMessage.service_url
CountAndIdentify(v, parsed) ==
    [v EXCEPT !.counter = @ + 1, !.service_url = Field(parsed, "service_url")]

\* line 59: zeroPadHex(parsedMessage.counter, 8) + ": " + parsedMessage.body
BodyLine(parsed) ==
    zeroPadHex(parsed.counter, IdPlaces) \o ": " \o Field(parsed, "body")

\* line 49-60: connection.onmessage.  JSON.parse (line 56) throws after the
\* shift; undefined.toString (line 50, called from 59) throws when the
\* message has no counter, after lines 57-58 and before the push.
Part000OnMessage(m) ==
    /\ app = "part_000"
    /\ connection.readyState = "OPEN"
    /\ m.ok /\ "counter" \in m.has => CanPush
    /\ m.ok /\ "counter" \notin m.has => vm.counter - Len(log) < MaxSkips
    /\ IF ~m.ok
       THEN /\ vm' = ShiftBeforeParse(vm)
            /\ log' = log
       ELSE IF "counter" \notin m.has
       THEN /\ vm' = CountAndIdentify(ShiftBeforeParse(vm), m)
            /\ log' = log
       ELSE /\ vm' = [CountAndIdentify(ShiftBeforeParse(vm), m) EXCEPT
                         !.messages = push(@, BodyLine(m))]
            /\ log' = Append(log, Pushed(m.counter, Field(m, "body"), FALSE, BodyLine(m)))
    /\ UNCHANGED <<app, pc, connection, toasts, beats>>

\* line 38-42 and 8: sendMessage('hello')
Part000SendMessage ==
    /\ app = "part_000"
    /\ connection.readyState = "OPEN" => Len(connection.sent) < MaxSent
    /\ connection' = IF SendThrows(connection) THEN connection
                     ELSE WsSend(connection, "hello")
    /\ UNCHANGED <<app, pc, vm, toasts, log, beats>>

-----------------------------------------------------------------------------
(* part_001 *)

\* line 67: vm.counter += 1
Count1(v) == [v EXCEPT !.counter = @ + 1]

\* line 68: vm.service_url = parsed.service_url
Identify1(v, parsed) == [v EXCEPT !.service_url = Field(parsed, "service_url")]

\* line 67-68: vm.counter += 1; vm.service_url = parsed.service_url
CountAndIdentify1(v, parsed) == Identify1(Count1(v), parsed)

\* line 73-75: "------>  " + zeroPadHex(vm.counter, 8) + ": " + parsed.data
InboundLine(counter, data) ==
    "------>  " \o zeroPadHex(counter, IdPlaces) \o ": " \o data

\* line 69-76: if (parsed.data) { if (messages.length > 15) shift; push }
DataBranch1(v, parsed) ==
    IF Truthy(Field(parsed, "data"))
    THEN [v EXCEPT !.messages =
              push(IF Len(@) > MessagesLimitIn THEN shift(@) ELSE @,
                   InboundLine(v.counter, Field(parsed, "data")))]
    ELSE v

\* line 78-80: if (parsed.notice) vm.notice = parsed.notice
NoticeBranch1(v, parsed) ==
    IF Truthy(Field(parsed, "notice"))
    THEN [v EXCEPT !.notice = Field(parsed, "notice")]
    ELSE v

\* line 62-81: connection.onmessage.  JSON.parse (line 66) throws first.
Part001OnMessage(m) ==
    /\ app = "part_001"
    /\ connection.readyState = "OPEN"
    /\ m.ok /\ Truthy(Field(m, "data")) => CanPush
    /\ m.ok /\ ~Truthy(Field(m, "data")) => vm.counter - Len(Inbound) < MaxSkips
    /\ IF ~m.ok
       THEN /\ UNCHANGED <<vm, log>>
       ELSE /\ vm' = NoticeBranch1(DataBranch1(CountAndIdentify1(vm, m), m), m)
            /\ log' = IF Truthy(Field(m, "data"))
                      THEN Append(log, Pushed(vm.counter + 1, Field(m, "data"), FALSE,
                                              vm'.messages[Len(vm'.messages)]))
                      ELSE log
    /\ UNCHANGED <<app, pc, connection, toasts, beats>>

\* line 53: "<--  " + zeroPadHex(this.counter, 8) + ": " + frame
EchoLine(counter, frame) ==
    "<--  " \o zeroPadHex(counter, IdPlaces) \o ": " \o frame

\* line 50-53: if (messages.length > 20) shift; push(echo)
Echo(v, frame) ==
    [v EXCEPT !.messages =
        push(IF Len(@) > MessagesLimitOut THEN shift(@) ELSE @,
             EchoLine(v.counter, frame))]

\* line 45-54: sendMessage(frame).  connection.send (line 47) throws while
\* the socket is CONNECTING, which skips the echo.
Part001SendMessage ==
    /\ app = "part_001"
    /\ connection.readyState = "OPEN" => Len(connection.sent) < MaxSent
    /\ ~SendThrows(connection) => CanPush
    /\ IF SendThrows(connection)
       THEN UNCHANGED <<connection, vm, log>>
       ELSE /\ connection' = WsSend(connection, vm.frame)
            /\ vm' = Echo(vm, vm.frame)
            /\ log' = Append(log, Pushed(vm.counter, vm.frame, TRUE,
                                         vm'.messages[Len(vm'.messages)]))
    /\ UNCHANGED <<app, pc, toasts, beats>>

-----------------------------------------------------------------------------
(* part_000 and part_001: socket life cycle *)

\* onopen (part_000 line 62-65, part_001 line 83-86): logs only
PartOnOpen ==
    /\ app # "MessageMonitor"
    /\ connection.readyState = "CONNECTING"
    /\ connection' = [connection EXCEPT !.readyState = "OPEN"]
    /\ UNCHANGED <<app, pc, vm, toasts, log, beats>>

\* no onerror handler is set: the event only closes the socket
PartOnError ==
    /\ app # "MessageMonitor"
    /\ connection.readyState # "CLOSED"
    /\ connection' = [connection EXCEPT !.readyState = "CLOSED", !.closePending = TRUE]
    /\ UNCHANGED <<app, pc, vm, toasts, log, beats>>

\* no onclose handler is set
PartOnClose ==
    /\ app # "MessageMonitor"
    /\ connection.readyState # "CLOSED" \/ connection.closePending
    /\ connection' = [connection EXCEPT !.readyState = "CLOSED", !.closePending = FALSE]
    /\ UNCHANGED <<app, pc, vm, toasts, log, beats>>

-----------------------------------------------------------------------------
(* The specification *)

\* a session of MessageMonitor.vue
NextMonitor ==
    \/ \E m \in DataMessages \cup {Malformed} : MonitorOnMessage(m)
    \/ MonitorOnOpen
    \/ MonitorOnError
    \/ MonitorOnClose
    \/ sendFrame

\* a session of part_000
NextPart000 ==
    \/ \E m \in BodyMessages \cup {Malformed} : Part000OnMessage(m)
    \/ Part000SendMessage
    \/ PartOnOpen
    \/ PartOnError
    \/ PartOnClose

\* a session of part_001
NextPart001 ==
    \/ \E m \in DataMessages \cup {Malformed} : Part001OnMessage(m)
    \/ Part001SendMessage
    \/ PartOnOpen
    \/ PartOnError
    \/ PartOnClose

Next == NextMonitor \/ NextPart000 \/ NextPart001

\* any of the three components
Spec == Init /\ [][Next]_vars

\* one component each
InitMonitor == Init /\ app = "MessageMonitor"
InitPart000 == Init /\ app = "part_000"
InitPart001 == Init /\ app = "part_001"

SpecMonitor == InitMonitor /\ [][NextMonitor]_vars
SpecPart000 == InitPart000 /\ [][NextPart000]_vars
SpecPart001 == InitPart001 /\ [][NextPart001]_vars

-----------------------------------------------------------------------------
(* The 'message' handlers of MessageMonitor.vue and part_001, one statement
   per step.  A handler runs to completion: while it runs no other event is
   delivered. *)

Running == pc.at # "idle"

\* moving the running handler to another statement
Goto(at) == [pc EXCEPT !.at = at]

\* the handler returns (or throws)
Return == Idle(pc.handled)

\* the 'message' event is delivered: the handler starts at JSON.parse
HandlerEnter(m) ==
    /\ app \in {"MessageMonitor", "part_001"}
    /\ ~Running
    /\ connection.readyState = "OPEN"
    /\ pc.handled < MaxHandled
    /\ pc' = [at |-> "parse", msg |-> m,
              before |-> [vm |-> vm, toasts |-> toasts], handled |-> pc.handled + 1]
    /\ UNCHANGED <<app, vm, connection, toasts, log, beats>>

\* MessageMonitor line 23 / part_001 line 66: JSON.parse(event.data)
HandlerParse ==
    /\ pc.at = "parse"
    /\ pc' = IF ~pc.msg.ok THEN Return
             ELSE IF app = "MessageMonitor" THEN Goto("identity") ELSE Goto("count")
    /\ UNCHANGED <<app, vm, connection, toasts, log, beats>>

\* MessageMonitor line 26-29
MonitorIdentityStep ==
    /\ app = "MessageMonitor"
    /\ pc.at = "identity"
    /\ vm' = ServiceUrlBranch(vm, pc.msg)
    /\ beats' = IF Truthy(Field(pc.msg, "service_url")) THEN beats + 1 ELSE beats
    /\ pc' = Goto("data")
    /\ UNCHANGED <<app, connection, toasts, log>>

\* MessageMonitor line 31-37
MonitorDataStep ==
    /\ app = "MessageMonitor"
    /\ pc.at = "data"
    /\ vm' = DataBranch(vm, pc.msg)
    /\ log' = IF Truthy(Field(pc.msg, "data"))
              THEN Append(log, Pushed(vm.count, Field(pc.msg, "data"), FALSE,
                                      vm'.frames[Len(vm'.frames)]))
              ELSE log
    /\ pc' = Goto("notice")
    /\ UNCHANGED <<app, connection, toasts, beats>>

\* MessageMonitor line 39-41
MonitorNoticeStep ==
    /\ app = "MessageMonitor"
    /\ pc.at = "notice"
    /\ toasts' = NoticeBranch(toasts, pc.msg)
    /\ pc' = Return
    /\ UNCHANGED <<app, vm, connection, log, beats>>

\* part_001 line 67
Part001CountStep ==
    /\ app = "part_001"
    /\ pc.at = "count"
    /\ vm' = Count1(vm)
    /\ pc' = Goto("identity")
    /\ UNCHANGED <<app, connection, toasts, log, beats>>

\* part_001 line 68
Part001IdentityStep ==
    /\ app = "part_001"
    /\ pc.at = "identity"
    /\ vm' = Identify1(vm, pc.msg)
    /\ pc' = Goto("data")
    /\ UNCHANGED <<app, connection, toasts, log, beats>>

\* part_001 line 69-76
Part001DataStep ==
    /\ app = "part_001"
    /\ pc.at = "data"
    /\ vm' = DataBranch1(vm, pc.msg)
    /\ log' = IF Truthy(Field(pc.msg, "data"))
              THEN Append(log, Pushed(vm.counter, Field(pc.msg, "data"), FALSE,
                                      vm'.messages[Len(vm'.messages)]))
              ELSE log
    /\ pc' = Goto("notice")
    /\ UNCHANGED <<app, connection, toasts, beats>>

\* part_001 line 78-80
Part001NoticeStep ==
    /\ app = "part_001"
    /\ pc.at = "notice"
    /\ vm' = NoticeBranch1(vm, pc.msg)
    /\ pc' = Return
    /\ UNCHANGED <<app, connection, toasts, log, beats>>

\* every other event waits for the running handler to return
BetweenHandlers ==
    /\ ~Running
    /\ \/ MonitorOnOpen
       \/ MonitorOnError
       \/ MonitorOnClose
       \/ sendFrame
       \/ Part001SendMessage
       \/ PartOnOpen
       \/ PartOnError
       \/ PartOnClose

NextSteps ==
    \/ \E m \in DataMessages \cup {Malformed} : HandlerEnter(m)
    \/ HandlerParse
    \/ MonitorIdentityStep
    \/ MonitorDataStep
    \/ MonitorNoticeStep
    \/ Part001CountStep
    \/ Part001IdentityStep
    \/ Part001DataStep
    \/ Part001NoticeStep
    \/ BetweenHandlers

InitSteps == Init /\ app \in {"MessageMonitor", "part_001"}

\* the two components, their 'message' handlers taken statement by statement
SpecSteps == InitSteps /\ [][NextSteps]_vars

-----------------------------------------------------------------------------
(* Vocabulary of the properties *)

Min(a, b) == IF a < b THEN a ELSE b
Max(a, b) == IF a > b THEN a ELSE b

\* the retained frames are the last Len(History) frames pushed, in push order
IsSuffix ==
    /\ Len(History) <= Len(log)
    /\ \A i \in 1..Len(History) :
          History[i] = log[Len(log) - Len(History) + i].entry

\* the sequence number of the oldest retained frame
OldestSeq == log[Len(log) - Len(History) + 1].seq

\* a step that pushed a frame and evicted one
Evicting == Len(log') = Len(log) + 1 /\ Len(History') <= Len(History)

\* the notice the user currently sees, if any
LastNotice ==
    CASE app = "MessageMonitor" ->
            IF toasts = <<>> THEN UNDEFINED ELSE toasts[Len(toasts)].message
      [] app = "part_001" -> vm.notice
      [] OTHER -> UNDEFINED

\* a message that decodes to an object with no field
EmptyMessage == Msg(TRUE, {}, UNDEFINED, UNDEFINED, UNDEFINED, 0, UNDEFINED)

\* steps by the kind of event handled
MessageStep(m) == MonitorOnMessage(m) \/ Part000OnMessage(m) \/ Part001OnMessage(m)
SubmitStep == sendFrame \/ Part000SendMessage \/ Part001SendMessage
ErrorStep == MonitorOnError \/ PartOnError
CloseStep == MonitorOnClose \/ PartOnClose

\* the string a submission hands to the socket
Submitted == CASE app = "MessageMonitor" -> vm.outframe
               [] app = "part_000" -> "hello"
               [] OTHER -> vm.frame

-----------------------------------------------------------------------------
(* Properties *)

\* C1: after every handled event the frame history holds at most N frames,
\* N being the capacity of the mounted component (100, 20, 20).
C1_HistoryWithinCapacity == Len(History) <= Capacity

\* C2: in MessageMonitor, after k data messages the history holds exactly the
\* last min(k, N) frames in arrival order, with sequences max(0, k-N)..k-1
\* and the payloads those messages carried.
C2_LastFramesKept ==
    app = "MessageMonitor" =>
        LET k == Len(log)
            first == Max(0, k - FramesLimit)
        IN /\ Len(vm.frames) = Min(k, FramesLimit)
           /\ \A i \in 1..Len(vm.frames) :
                 vm.frames[i] = [id |-> zeroPadHex(first + i - 1, IdPlaces),
                                 frame |-> Feed[((first + i - 1) % Len(Feed)) + 1]]

\* C3: the retained frames are always a contiguous suffix of all frames ever
\* pushed, and every push that evicts raises the sequence number of the
\* oldest retained frame.
C3_SuffixAndOldestIncreases ==
    [][IsSuffix' /\ (Evicting => OldestSeq' > OldestSeq)]_vars

\* C4: the sequence numbers of the frames pushed during one connection are
\* consecutive (hence strictly increasing and never reused), whether the frame
\* is inbound or a local echo and whatever other messages arrive in between.
C4_SequencesConsecutive ==
    \A i \in 1..(Len(log) - 1) : log[i + 1].seq = log[i].seq + 1

\* C5: handling a malformed message changes no session state: history,
\* counter, service identity, activity level and notice stay as they were.
C5_MalformedChangesNothing ==
    [][MessageStep(Malformed) => vm' = vm /\ toasts' = toasts]_vars

\* C6 as stated: every message that carries the service_url field, whatever
\* string it holds, advances the activity level by 4 modulo 100.
C6_EveryIdentityAdvances ==
    [][\A m \in DataMessages :
          "service_url" \in m.has /\ MonitorOnMessage(m)
              => vm'.activity = (vm.activity + ActivityStep) % ActivityModulus]_vars

\* C6 amended: in MessageMonitor, after k messages carrying a non-empty
\* service_url, whatever else they and the other messages carry, the activity
\* level is (10 + 4k) mod 100, and so it stays within [0, 100).
C6_ActivityClosedForm ==
    app = "MessageMonitor" =>
        /\ vm.activity = (ActivityInit + ActivityStep * beats) % ActivityModulus
        /\ vm.activity \in 0..(ActivityModulus - 1)

\* C6 witness: the level has wrapped while frames and notices were handled too
C6_Wrapped ==
    /\ app = "MessageMonitor"
    /\ ActivityInit + ActivityStep * beats >= ActivityModulus
    /\ vm.activity < ActivityInit
    /\ Len(log) > 0
    /\ toasts # <<>>

\* C7: a well-formed message with no field changes no session state.
C7_EmptyMessageChangesNothing ==
    [][MessageStep(EmptyMessage) => vm' = vm /\ toasts' = toasts]_vars

\* C8: a submission on an open socket hands exactly the submitted string to
\* the socket, once, and adds exactly one locally tagged frame with that
\* payload to the history.
C8_SubmitSendsAndEchoes ==
    [][SubmitStep /\ connection.readyState = "OPEN"
          => /\ connection'.sent = Append(connection.sent, Submitted)
             /\ Len(log') = Len(log) + 1
             /\ log'[Len(log')].local
             /\ log'[Len(log')].payload = Submitted
             /\ Len(History') = Len(History) + 1
             /\ History'[Len(History')] = log'[Len(log')].entry]_vars

\* C9: a submission on a socket that is not open transmits nothing, adds no
\* frame to the history and raises a notice.
C9_SubmitRejectedWhenNotOpen ==
    [][SubmitStep /\ connection.readyState # "OPEN"
          => /\ connection'.sent = connection.sent
             /\ History' = History
             /\ (toasts' # toasts \/ LastNotice' # LastNotice)]_vars

\* C10: an error event and a close event each leave the connection closed
\* and the user looking at the notice "lost connection".
C10_ErrorAndCloseNotify ==
    [][ErrorStep \/ CloseStep
          => /\ connection'.readyState = "CLOSED"
             /\ LastNotice' = "lost connection"]_vars


\* how far the one socket has come: a second channel would start over
Progress(ws) ==
    CASE ws.readyState = "CONNECTING" -> 0
      [] ws.readyState = "OPEN" -> 1
      [] OTHER -> 2

\* C11: the session has one channel that is never re-created: the socket
\* never goes back to an earlier state, it loses nothing it was handed, and
\* once closed it stays closed whatever event follows.
C11_NeverReconnects ==
    [][/\ Progress(connection') >= Progress(connection)
       /\ Len(connection'.sent) >= Len(connection.sent)
       /\ connection.readyState = "CLOSED" => connection'.readyState = "CLOSED"]_vars

\* C11 witness: closed after use, with both the error and the close event
\* handled on the closed socket
C11_ClosedForGood ==
    /\ app = "MessageMonitor"
    /\ connection.readyState = "CLOSED"
    /\ ~connection.closePending
    /\ connection.sent # <<>>
    /\ Len(toasts) >= 2


\* the sequence counter of the mounted component
Counter == IF app = "MessageMonitor" THEN vm.count ELSE vm.counter

\* the activity level (kept by MessageMonitor only)
Activity == IF app = "MessageMonitor" THEN vm.activity ELSE UNDEFINED

\* C12: the fields act independently: a message with data and no service_url
\* leaves service identity and activity level unchanged, a message with
\* service_url and no data leaves frame history and sequence counter
\* unchanged, and a notice-only message changes none of the four.
C12_FieldsIndependent ==
    [][\A m \in DataMessages \cup BodyMessages :
          MessageStep(m) =>
             /\ ("data" \in m.has /\ "service_url" \notin m.has)
                   => vm'.service_url = vm.service_url /\ Activity' = Activity
             /\ ("service_url" \in m.has /\ "data" \notin m.has)
                   => History' = History /\ Counter' = Counter
             /\ m.has = {"notice"}
                   => /\ vm'.service_url = vm.service_url /\ Activity' = Activity
                      /\ History' = History /\ Counter' = Counter]_vars


\* C15: across every handled event the history length never decreases and
\* at most one frame is removed, and only by a step that also pushes one.
C15_RemovedOnlyByEviction ==
    [][LET pushed == Len(log') - Len(log)
           removed == Len(History) + pushed - Len(History')
       IN /\ Len(History') >= Len(History)
          /\ removed <= 1
          /\ removed = 1 => pushed = 1]_vars


LostConnection == [type |-> "error", message |-> "lost connection"]

\* a step in which the socket's error or close event is delivered
FailureEvent == connection' # connection /\ connection'.readyState = "CLOSED"

\* C16: in MessageMonitor an error or close event raises exactly one
\* "lost connection" error notice and changes nothing else (frames, count,
\* activity, service_url), so the close that follows an error leaves two
\* such notices, one after the other.
C16_FailureOnlyNotifies ==
    [][app = "MessageMonitor" /\ FailureEvent
          => /\ vm' = vm
             /\ log' = log
             /\ beats' = beats
             /\ toasts' = Append(toasts, LostConnection)
             /\ connection.closePending
                   => /\ Len(toasts') >= 2
                      /\ toasts'[Len(toasts') - 1] = LostConnection]_vars

\* C16 witness: frames, identity and a notice were received, then the error
\* and its close were handled
C16_NotifiedTwice ==
    /\ app = "MessageMonitor"
    /\ connection.readyState = "CLOSED" /\ ~connection.closePending
    /\ vm.frames # <<>> /\ vm.activity # ActivityInit /\ vm.service_url = ServiceUrl
    /\ Len(toasts) >= 3
    /\ toasts[Len(toasts)] = LostConnection
    /\ toasts[Len(toasts) - 1] = LostConnection
    /\ toasts[Len(toasts) - 2].type = "info"


\* the step appended exactly one frame, with the next sequence number and
\* the payload data, behind the frames that arrived before it
AppendedOne(data) ==
    LET new == [id |-> zeroPadHex(vm.count, IdPlaces), frame |-> data]
    IN /\ \/ vm'.frames = Append(vm.frames, new)
          \/ vm.frames # <<>> /\ vm'.frames = Append(Tail(vm.frames), new)
       /\ vm'.count = vm.count + 1
       /\ Len(log') = Len(log) + 1
       /\ IsSuffix'

\* C13 as stated: every well-formed message that carries a data field,
\* whatever string it holds, appends exactly one frame with that payload and
\* the next sequence number, in arrival order.
C13_EveryDataAppends ==
    [][\A m \in DataMessages :
          "data" \in m.has /\ MonitorOnMessage(m) => AppendedOne(m.data)]_vars

\* C13 amended: every well-formed message whose data field is a non-empty
\* string appends exactly one frame with that payload and the next sequence
\* number behind the earlier frames; one whose data field is the empty
\* string, like one without the field, appends none.
C13_NonEmptyDataAppends ==
    [][\A m \in DataMessages :
          MonitorOnMessage(m) =>
             IF Truthy(Field(m, "data"))
             THEN AppendedOne(m.data)
             ELSE vm'.frames = vm.frames /\ vm'.count = vm.count /\ log' = log]_vars

\* C13 witness: frames were appended up to and past the first eviction, in
\* order, the last one numbered with two hex digits
C13_AppendedInOrder ==
    /\ app = "MessageMonitor"
    /\ vm.count = Len(log)
    /\ Len(log) > Len(vm.frames)
    /\ vm.frames[Len(vm.frames)] =
          [id |-> zeroPadHex(vm.count - 1, IdPlaces), frame |-> log[Len(log)].payload]
    /\ vm.frames[1].frame = log[Len(log) - Len(vm.frames) + 1].payload


\* what the running handler has done so far to the state it started from
IdentityApplied ==
    /\ vm.service_url = pc.msg.service_url
    /\ app = "MessageMonitor"
          => vm.activity = (pc.before.vm.activity + ActivityStep) % ActivityModulus

SequenceAdvanced ==
    IF app = "MessageMonitor" THEN vm.count # pc.before.vm.count
    ELSE vm.counter # pc.before.vm.counter

FrameAppended ==
    IF app = "MessageMonitor" THEN vm.frames # pc.before.vm.frames
    ELSE vm.messages # pc.before.vm.messages

\* what a step of the running handler does
AppliesIdentity == vm'.service_url # vm.service_url \/ Activity' # Activity
AppliesData == Counter' # Counter \/ History' # History
AppliesNotice == toasts' # toasts \/ LastNotice' # LastNotice

\* C14: the effects of one message come in the order identity, data, notice:
\* a handler appends the frame or advances the sequence only once the service
\* identity is replaced (and the activity level advanced), it raises the
\* notice only after both, and it never goes back to the identity.
C14_IdentityThenDataThenNotice ==
    [][Running =>
          /\ AppliesData /\ Truthy(Field(pc.msg, "data"))
                /\ Truthy(Field(pc.msg, "service_url")) => IdentityApplied
          /\ AppliesNotice =>
                /\ Truthy(Field(pc.msg, "service_url")) => IdentityApplied
                /\ Truthy(Field(pc.msg, "data")) => SequenceAdvanced /\ FrameAppended
          /\ AppliesIdentity => ~SequenceAdvanced /\ ~FrameAppended]_vars

====
